---- MODULE Spec2Model ----
(***************************************************************************)
(* Query resolvers of saleor/graphql/product/schema.py (ProductQueries).   *)
(*                                                                         *)
(* One request is one synchronous resolver call.  Each resolver is one     *)
(* action: it reads its arguments and the requestor, calls its             *)
(* collaborators in the order of the source and leaves                     *)
(*   request  - the request it served,                                     *)
(*   calls    - the delegated calls it made, in order, with what each      *)
(*              returned (default-channel provider, domain resolvers,      *)
(*              filter/sort engine, pagination engine),                    *)
(*   response - the value returned or the error raised.                    *)
(*                                                                         *)
(* Python values: None is the string "None"; a str argument is a string;   *)
(* a search text is a sequence of characters (so that str.strip() is       *)
(* computed); an optional input object is a tagged record                  *)
(* ([tag |-> "absent"] key not in kwargs, [tag |-> "null"] key present     *)
(* with value None, [tag |-> "input", ...] an input object).               *)
(***************************************************************************)
EXTENDS Integers, Sequences, FiniteSets, TLC

VARIABLES defaultChannel, request, calls, response

vars == <<defaultChannel, request, calls, response>>

-----------------------------------------------------------------------------
(* Bounds of the model *)

\* largest number of rows of a queryset in Spec
MaxItems == 1

\* largest number of rows of a queryset in SpecPage
MaxPagedItems == 3

\* largest page size (`first`) a list query asks for
MaxFirst == 2

\* largest search_rank the search annotates a row with (0: no match)
MaxRank == 2

-----------------------------------------------------------------------------
(* Python values *)

None == "None"

\* bool(v) of an Optional[str]
Truthy(v) == v # None /\ v # ""

Absent == [tag |-> "absent"]

Null == [tag |-> "null"]

RECURSIVE LStrip(_)
\* str.lstrip() on a sequence of characters
LStrip(s) == IF s # <<>> /\ Head(s) = " " THEN LStrip(Tail(s)) ELSE s

RECURSIVE RStrip(_)
\* str.rstrip() on a sequence of characters
RStrip(s) == IF s # <<>> /\ s[Len(s)] = " " THEN RStrip(SubSeq(s, 1, Len(s) - 1)) ELSE s

\* str.strip()
Strip(s) == RStrip(LStrip(s))

-----------------------------------------------------------------------------
(* Results of a resolver: what it returned or raised, and the calls made *)

NullData == [kind |-> "null"]

EntityData(node) == [kind |-> "entity", node |-> node]

\* ChannelContext(node=..., channel_slug=...)
ChannelContext(node, channel_slug) ==
    [kind |-> "context", node |-> node, channel_slug |-> channel_slug]

Return(data, cs) == [calls |-> cs, response |-> [error |-> None, data |-> data]]

Raise(error, cs) == [calls |-> cs, response |-> [error |-> error, data |-> NullData]]

Call(fn, args, ret) == [fn |-> fn, args |-> args, ret |-> ret]

-----------------------------------------------------------------------------
(* Collaborators of schema.py that live in other modules of the repository *)

EntityTypes ==
    {"Category", "Collection", "Product", "ProductVariant", "DigitalContent", "ProductType"}

\* the raw (internal) key every global id of the model encodes
RawId == "1"

\* to_global_id(type, RawId)
GlobalId(type) == type \o ":" \o RawId

GlobalIds == {GlobalId(t) : t \in EntityTypes}

\* the type a global id encodes
GlobalIdType(gid) == CHOOSE t \in EntityTypes : gid = GlobalId(t)

\* from_global_id_or_error(id, only_type): the raw value, or InvalidGlobalId
\* when the encoded type is not only_type
from_global_id_or_error(id, only_type) ==
    IF id \in GlobalIds /\ GlobalIdType(id) = only_type
    THEN [raised |-> FALSE, value |-> RawId]
    ELSE [raised |-> TRUE, value |-> None]

\* validate_one_of_args_is_in_query(name1, value1, name2, value2, ...):
\* TRUE when exactly one of the values is non-null, else InvalidArguments
validate_one_of_args_is_in_query(values) ==
    Cardinality({i \in DOMAIN values : values[i] # None}) = 1

\* ALL_PRODUCTS_PERMISSIONS of product.models: the full-catalog permissions
ALL_PRODUCTS_PERMISSIONS == {"MANAGE_ORDERS", "MANAGE_DISCOUNTS", "MANAGE_PRODUCTS"}

\* has_one_of_permissions(requestor, permissions); a requestor is modelled
\* by the set of permissions it holds
has_one_of_permissions(requestor, permissions) == requestor \cap permissions # {}

\* get_default_channel_slug_or_graphql_error()
get_default_channel_slug_or_graphql_error ==
    IF defaultChannel = None
    THEN [raised |-> TRUE, value |-> None]
    ELSE [raised |-> FALSE, value |-> defaultChannel]

\* resolvers.resolve_product / resolvers.resolve_variant get the global id
\* as the client sent it and decode it themselves: InvalidGlobalId when its
\* type is not only_type, else the entity found (or None)
resolve_by_global_id(id, only_type, found) ==
    IF Truthy(id) /\ from_global_id_or_error(id, only_type).raised
    THEN "raise InvalidGlobalId"
    ELSE found

-----------------------------------------------------------------------------
(* The channel step every channel-scoped resolver makes *)

\* the provider call of the channel step, as the calls record it
ProviderCall(d) ==
    Call("get_default_channel_slug_or_graphql_error", <<>>,
         IF d.raised THEN "raise NoDefaultChannel" ELSE d.value)

\* ChannelStep with `if channel is None:` (the permissions forgotten)
ChannelStep_IgnoresPermissions(channel, has_required_permissions) ==
    IF channel = None
    THEN LET d == get_default_channel_slug_or_graphql_error
         IN [raised |-> d.raised, channel |-> d.value, calls |-> <<ProviderCall(d)>>]
    ELSE [raised |-> FALSE, channel |-> channel, calls |-> <<>>]

\* ChannelStep with `if not channel and not has_required_permissions:`
ChannelStep_FalsyChannel(channel, has_required_permissions) ==
    IF ~Truthy(channel) /\ ~has_required_permissions
    THEN LET d == get_default_channel_slug_or_graphql_error
         IN [raised |-> d.raised, channel |-> d.value, calls |-> <<ProviderCall(d)>>]
    ELSE [raised |-> FALSE, channel |-> channel, calls |-> <<>>]

\* ChannelStep with the provider asked before the condition is looked at
ChannelStep_EagerProvider(channel, has_required_permissions) ==
    LET d == get_default_channel_slug_or_graphql_error
    IN IF d.raised \/ (channel = None /\ ~has_required_permissions)
       THEN [raised |-> d.raised, channel |-> d.value, calls |-> <<ProviderCall(d)>>]
       ELSE [raised |-> FALSE, channel |-> channel, calls |-> <<ProviderCall(d)>>]

\* `if channel is None and not has_required_permissions:`
\* `    channel = get_default_channel_slug_or_graphql_error()`
\* gives the channel after the statement, the provider call made (if any)
\* and whether the provider raised
ChannelStep(channel, has_required_permissions) ==
    IF channel = None /\ ~has_required_permissions
    THEN LET d == get_default_channel_slug_or_graphql_error
         IN [raised |-> d.raised, channel |-> d.value, calls |-> <<ProviderCall(d)>>]
    ELSE [raised |-> FALSE, channel |-> channel, calls |-> <<>>]

\* `ChannelContext(node=..., channel_slug=channel)` with no `if ... else None`
WrapInChannelContext_Always(node, channel_slug) == ChannelContext(node, channel_slug)

\* `ChannelContext(node=x, channel_slug=channel) if x else None`
WrapInChannelContext(node, channel_slug) ==
    IF node # None THEN ChannelContext(node, channel_slug) ELSE NullData

-----------------------------------------------------------------------------
(* Single-entity resolvers.  `found` is what the domain lookup finds: an   *)
(* entity or None.                                                         *)

\* resolve_category without the call of validate_one_of_args_is_in_query
resolve_category_unvalidated(id, slug, found) ==
    IF Truthy(id)
    THEN LET d == from_global_id_or_error(id, "Category")
         IN IF d.raised
            THEN Raise("InvalidGlobalId", <<>>)
            ELSE Return(IF found = None THEN NullData ELSE EntityData(found),
                        <<Call("resolve_category_by_id", [id |-> d.value], found)>>)
    ELSE IF Truthy(slug)
    THEN Return(IF found = None THEN NullData ELSE EntityData(found),
                <<Call("resolve_category_by_slug", [slug |-> slug], found)>>)
    ELSE Return(NullData, <<>>)

resolve_category(id, slug, found) ==
    IF ~validate_one_of_args_is_in_query(<<id, slug>>)
    THEN Raise("InvalidArguments", <<>>)
    ELSE IF Truthy(id)
    THEN LET d == from_global_id_or_error(id, "Category")
         IN IF d.raised
            THEN Raise("InvalidGlobalId", <<>>)
            ELSE Return(IF found = None THEN NullData ELSE EntityData(found),
                        <<Call("resolve_category_by_id", [id |-> d.value], found)>>)
    ELSE IF Truthy(slug)
    THEN Return(IF found = None THEN NullData ELSE EntityData(found),
                <<Call("resolve_category_by_slug", [slug |-> slug], found)>>)
    ELSE Return(NullData, <<>>)

resolve_collection(requestor, id, slug, channel, found) ==
    IF ~validate_one_of_args_is_in_query(<<id, slug>>)
    THEN Raise("InvalidArguments", <<>>)
    ELSE LET has_required_permissions ==
                 has_one_of_permissions(requestor, ALL_PRODUCTS_PERMISSIONS)
             ch == ChannelStep(channel, has_required_permissions)
             d == from_global_id_or_error(id, "Collection")
             lookup ==
                 IF Truthy(id)
                 THEN Call("resolve_collection_by_id",
                           [id |-> d.value, channel_slug |-> ch.channel,
                            requestor |-> requestor], found)
                 ELSE Call("resolve_collection_by_slug",
                           [slug |-> slug, channel_slug |-> ch.channel,
                            requestor |-> requestor], found)
         IN IF ch.raised
            THEN Raise("NoDefaultChannel", ch.calls)
            ELSE IF Truthy(id) /\ d.raised
            THEN Raise("InvalidGlobalId", ch.calls)
            ELSE Return(WrapInChannelContext(found, ch.channel),
                        Append(ch.calls, lookup))

\* resolve_digital_content with the id handed on as the client sent it
resolve_digital_content_undecoded(id, found) ==
    Return(IF found = None THEN NullData ELSE EntityData(found),
           <<Call("resolve_digital_content_by_id", [id |-> id], found)>>)

resolve_digital_content(id, found) ==
    LET d == from_global_id_or_error(id, "DigitalContent")
    IN IF d.raised
       THEN Raise("InvalidGlobalId", <<>>)
       ELSE Return(IF found = None THEN NullData ELSE EntityData(found),
                   <<Call("resolve_digital_content_by_id", [id |-> d.value], found)>>)

resolve_product(requestor, id, slug, external_reference, channel, found) ==
    IF ~validate_one_of_args_is_in_query(<<id, slug, external_reference>>)
    THEN Raise("InvalidArguments", <<>>)
    ELSE LET has_required_permissions ==
                 has_one_of_permissions(requestor, ALL_PRODUCTS_PERMISSIONS)
             ch == ChannelStep(channel, has_required_permissions)
             product == resolve_by_global_id(id, "Product", found)
             lookup ==
                 Call("resolve_product",
                      [id |-> id, slug |-> slug,
                       external_reference |-> external_reference,
                       channel_slug |-> ch.channel, requestor |-> requestor],
                      product)
         IN IF ch.raised
            THEN Raise("NoDefaultChannel", ch.calls)
            ELSE IF product = "raise InvalidGlobalId"
            THEN Raise("InvalidGlobalId", Append(ch.calls, lookup))
            ELSE Return(WrapInChannelContext(product, ch.channel),
                        Append(ch.calls, lookup))

\* resolve_product_type with the lookup made before the id is decoded
resolve_product_type_lookup_first(id, found) ==
    LET d == from_global_id_or_error(id, "ProductType")
        lookup == Call("resolve_product_type_by_id", [id |-> id], found)
    IN IF d.raised
       THEN Raise("InvalidGlobalId", <<lookup>>)
       ELSE Return(IF found = None THEN NullData ELSE EntityData(found), <<lookup>>)

resolve_product_type(id, found) ==
    LET d == from_global_id_or_error(id, "ProductType")
    IN IF d.raised
       THEN Raise("InvalidGlobalId", <<>>)
       ELSE Return(IF found = None THEN NullData ELSE EntityData(found),
                   <<Call("resolve_product_type_by_id", [id |-> d.value], found)>>)

resolve_product_variant(requestor, id, sku, external_reference, channel, found) ==
    IF ~validate_one_of_args_is_in_query(<<id, sku, external_reference>>)
    THEN Raise("InvalidArguments", <<>>)
    ELSE LET has_required_permissions ==
                 has_one_of_permissions(requestor, ALL_PRODUCTS_PERMISSIONS)
             ch == ChannelStep(channel, has_required_permissions)
             variant == resolve_by_global_id(id, "ProductVariant", found)
             lookup ==
                 Call("resolve_variant",
                      [id |-> id, sku |-> sku,
                       external_reference |-> external_reference,
                       channel_slug |-> ch.channel, requestor |-> requestor,
                       requestor_has_access_to_all |-> has_required_permissions],
                      variant)
         IN IF ch.raised
            THEN Raise("NoDefaultChannel", ch.calls)
            ELSE IF variant = "raise InvalidGlobalId"
            THEN Raise("InvalidGlobalId", Append(ch.calls, lookup))
            ELSE Return(WrapInChannelContext(variant, ch.channel),
                        Append(ch.calls, lookup))

-----------------------------------------------------------------------------
(* Rows, orderings and the engines the list resolvers delegate to *)

Ranks == 0 .. MaxRank

\* a row of a queryset; name and slug are collation positions (name repeats,
\* slug is unique), search_rank is what the search annotates the row with
Row(id, search_rank) ==
    [id |-> id, search_rank |-> search_rank, name |-> id % 2, slug |-> 0 - id]

\* the querysets of n rows a domain resolver can return, in its own order
QuerySetsOfLen(n) ==
    {[i \in 1 .. n |-> Row(i, rk[i])] : rk \in [1 .. n -> Ranks]}

QuerySets(max) == UNION {QuerySetsOfLen(n) : n \in 0 .. max}

\* ProductOrderField.RANK.value (the field list of line 422)
RANK == <<"search_rank", "id">>

\* the value of another sort field (ProductOrderField.NAME)
NAME == <<"name", "slug">>

\* OrderDirection: "" ascending, "-" descending
ASC == ""

DESC == "-"

SortBy(direction, field) == [tag |-> "input", direction |-> direction, field |-> field]

\* the values of the columns `field` of a row: its sort key, and its cursor
KeyOf(row, field) == [i \in 1 .. Len(field) |-> row[field[i]]]

RECURSIVE LexLess(_, _)
\* a < b, lexicographically
LexLess(a, b) ==
    IF a = <<>> \/ b = <<>>
    THEN a = <<>> /\ b # <<>>
    ELSE Head(a) < Head(b) \/ (Head(a) = Head(b) /\ LexLess(Tail(a), Tail(b)))

\* key a comes before key b under the direction, which applies to every
\* column of the field list (order_by("-search_rank", "-id"))
Before(direction, a, b) == IF direction = DESC THEN LexLess(b, a) ELSE LexLess(a, b)

\* the ordering a sort specification asks for; with none (or with no field)
\* the queryset keeps the order of its primary key
OrderingOf(sort_by) ==
    IF sort_by.tag = "input" /\ sort_by.field # <<>>
    THEN [direction |-> sort_by.direction, field |-> sort_by.field]
    ELSE [direction |-> ASC, field |-> <<"id">>]

\* apply_sort(collection, sort_spec)
apply_sort(qs, sort_by) ==
    LET o == OrderingOf(sort_by)
    IN SortSeq(qs, LAMBDA x, y : Before(o.direction, KeyOf(x, o.field), KeyOf(y, o.field)))

\* the search predicate of a filter: the non-blank search text, if any
SearchOf(filter) ==
    IF filter.tag = "input" /\ filter.search.tag = "str"
    THEN Strip(filter.search.chars)
    ELSE <<>>

\* apply_filter(collection, filter_spec): a search keeps the rows it matches
apply_filter(qs, filter) ==
    IF SearchOf(filter) # <<>>
    THEN SelectSeq(qs, LAMBDA x : x.search_rank > 0)
    ELSE qs

\* filter_connection_queryset(qs, kwargs): filters, then sorts
filter_connection_queryset(qs, kwargs) ==
    apply_sort(apply_filter(qs, kwargs.filter), kwargs.sort_by)

\* the position of the row an `after` cursor names: the number of rows not
\* after it in the ordering
Offset(qs, o, after) ==
    Cardinality({i \in 1 .. Len(qs) : ~Before(o.direction, after, KeyOf(qs[i], o.field))})

\* the Python slice s[lo:hi] of a sequence, 0 <= lo <= hi
PySlice(s, lo, hi) ==
    [i \in 1 .. ((IF hi < Len(s) THEN hi ELSE Len(s)) - lo) |-> s[lo + i]]

\* create_connection_slice(qs, info, kwargs, connection_type), forward:
\* fetches first + 1 rows after the cursor; the extra row only tells whether
\* a next page exists.  `after` is <<>> when the argument is not given.
create_connection_slice(qs, kwargs) ==
    LET o == OrderingOf(kwargs.sort_by)
        start == IF kwargs.after = <<>> THEN 0 ELSE Offset(qs, o, kwargs.after)
        fetched == PySlice(qs, start, start + kwargs.first + 1)
        page == PySlice(fetched, 0, kwargs.first)
        edges == [i \in 1 .. Len(page) |->
                     [cursor |-> KeyOf(page[i], o.field), node |-> page[i]]]
    IN IF kwargs.after # <<>> /\ Len(kwargs.after) # Len(o.field)
       THEN [raised |-> TRUE, value |-> [kind |-> "null"]]
       ELSE [raised |-> FALSE,
             value |-> [kind |-> "connection",
                        edges |-> edges,
                        has_next_page |-> Len(fetched) > kwargs.first,
                        end_cursor |-> IF edges = <<>> THEN <<>>
                                       ELSE edges[Len(edges)].cursor]]

\* FilterAndSlice with the slice taken of the queryset before the filter
FilterAndSlice_SlicesUnfiltered(cs, qs, kwargs) ==
    LET filtered == filter_connection_queryset(qs, kwargs)
        slice == create_connection_slice(qs, kwargs)
        cs2 == cs \o <<Call("filter_connection_queryset",
                            [qs |-> qs, kwargs |-> kwargs], filtered),
                       Call("create_connection_slice",
                            [qs |-> qs, kwargs |-> kwargs], slice.value)>>
    IN IF slice.raised THEN Raise("InvalidCursor", cs2) ELSE Return(slice.value, cs2)

\* the two engine calls that end a filterable list resolver, on the queryset
\* `qs` the domain resolver returned, after the calls `cs` made so far
FilterAndSlice(cs, qs, kwargs) ==
    LET filtered == filter_connection_queryset(qs, kwargs)
        slice == create_connection_slice(filtered, kwargs)
        cs2 == cs \o <<Call("filter_connection_queryset",
                            [qs |-> qs, kwargs |-> kwargs], filtered),
                       Call("create_connection_slice",
                            [qs |-> filtered, kwargs |-> kwargs], slice.value)>>
    IN IF slice.raised THEN Raise("InvalidCursor", cs2) ELSE Return(slice.value, cs2)

\* the engine call that ends a list resolver that does not filter
SliceOnly(cs, qs, kwargs) ==
    LET slice == create_connection_slice(qs, kwargs)
        cs2 == Append(cs, Call("create_connection_slice",
                               [qs |-> qs, kwargs |-> kwargs], slice.value))
    IN IF slice.raised THEN Raise("InvalidCursor", cs2) ELSE Return(slice.value, cs2)

-----------------------------------------------------------------------------
(* List resolvers.  kwargs is the record of the keyword arguments           *)
(* [filter, sort_by, first, after, channel]; channel is NotInKwargs until   *)
(* a resolver stores it.  `qs` is the queryset the domain resolver returns. *)

NotInKwargs == "(not in kwargs)"

Kwargs(filter, sort_by, first, after) ==
    [filter |-> filter, sort_by |-> sort_by, first |-> first, after |-> after,
     channel |-> NotInKwargs]

\* search_string_in_kwargs without .strip(): bool(search)
search_string_in_kwargs_unstripped(kwargs) ==
    IF kwargs.filter.tag = "absent"
    THEN [raised |-> FALSE, value |-> FALSE]
    ELSE IF kwargs.filter.tag = "null"
    THEN [raised |-> TRUE, value |-> FALSE]
    ELSE IF kwargs.filter.search.tag = "absent"
    THEN [raised |-> FALSE, value |-> FALSE]
    ELSE IF kwargs.filter.search.tag = "null"
    THEN [raised |-> TRUE, value |-> FALSE]
    ELSE [raised |-> FALSE, value |-> kwargs.filter.search.chars # <<>>]

\* kwargs.get("filter", {}).get("search", "").strip(), as a bool;
\* None has no .get and no .strip: AttributeError
search_string_in_kwargs(kwargs) ==
    IF kwargs.filter.tag = "absent"
    THEN [raised |-> FALSE, value |-> FALSE]
    ELSE IF kwargs.filter.tag = "null"
    THEN [raised |-> TRUE, value |-> FALSE]
    ELSE IF kwargs.filter.search.tag = "absent"
    THEN [raised |-> FALSE, value |-> FALSE]
    ELSE IF kwargs.filter.search.tag = "null"
    THEN [raised |-> TRUE, value |-> FALSE]
    ELSE [raised |-> FALSE, value |-> Strip(kwargs.filter.search.chars) # <<>>]

\* kwargs.get("sort_by", {}).get("field") or None; <<>> is None
sort_field_from_kwargs(kwargs) ==
    IF kwargs.sort_by.tag = "absent"
    THEN [raised |-> FALSE, value |-> <<>>]
    ELSE IF kwargs.sort_by.tag = "null"
    THEN [raised |-> TRUE, value |-> <<>>]
    ELSE [raised |-> FALSE, value |-> kwargs.sort_by.field]

\* DefaultSort with `if search:` (the `and not sort_field` forgotten)
DefaultSort_OverridesExplicit(kwargs, search, sort_field) ==
    IF search
    THEN [kwargs EXCEPT !.sort_by = SortBy(DESC, <<"search_rank", "id">>)]
    ELSE kwargs

\* DefaultSort with the direction of the default left ascending
DefaultSort_Ascending(kwargs, search, sort_field) ==
    IF search /\ sort_field = <<>>
    THEN [kwargs EXCEPT !.sort_by = SortBy(ASC, <<"search_rank", "id">>)]
    ELSE kwargs

\* lines 417-423: the sort the resolver goes on with
DefaultSort(kwargs, search, sort_field) ==
    IF search /\ sort_field = <<>>
    THEN [kwargs EXCEPT !.sort_by = SortBy(DESC, <<"search_rank", "id">>)]
    ELSE kwargs

resolve_categories(level, kwargs, qs) ==
    FilterAndSlice(<<Call("resolve_categories", [level |-> level], [qs |-> qs])>>,
                   qs, kwargs)

resolve_collections(requestor, channel, kwargs, qs) ==
    LET has_required_permissions ==
            has_one_of_permissions(requestor, ALL_PRODUCTS_PERMISSIONS)
        ch == ChannelStep(channel, has_required_permissions)
        domain == Call("resolve_collections", [channel_slug |-> ch.channel],
                       [qs |-> qs, channel_slug |-> ch.channel])
    IN IF ch.raised
       THEN Raise("NoDefaultChannel", ch.calls)
       ELSE FilterAndSlice(Append(ch.calls, domain), qs,
                           [kwargs EXCEPT !.channel = ch.channel])

resolve_digital_contents(kwargs, qs) ==
    SliceOnly(<<Call("resolve_digital_contents", <<>>, [qs |-> qs])>>, qs, kwargs)

resolve_products(requestor, channel, kwargs, qs) ==
    LET sort_field == sort_field_from_kwargs(kwargs)
        search == search_string_in_kwargs(kwargs)
        kwargs1 == DefaultSort(kwargs, search.value, sort_field.value)
        has_required_permissions ==
            has_one_of_permissions(requestor, ALL_PRODUCTS_PERMISSIONS)
        ch == ChannelStep(channel, has_required_permissions)
        domain == Call("resolve_products",
                       [requestor |-> requestor, channel_slug |-> ch.channel],
                       [qs |-> qs, channel_slug |-> ch.channel])
    IN IF sort_field.raised
       THEN Raise("AttributeError", <<>>)
       ELSE IF sort_field.value = RANK /\ search.raised
       THEN Raise("AttributeError", <<>>)
       ELSE IF sort_field.value = RANK /\ ~search.value
       THEN Raise("InvalidSortWithoutSearch", <<>>)
       ELSE IF search.raised
       THEN Raise("AttributeError", <<>>)
       ELSE IF ch.raised
       THEN Raise("NoDefaultChannel", ch.calls)
       ELSE FilterAndSlice(Append(ch.calls, domain), qs,
                           [kwargs1 EXCEPT !.channel = ch.channel])

resolve_product_types(kwargs, qs) ==
    FilterAndSlice(<<Call("resolve_product_types", <<>>, [qs |-> qs])>>, qs, kwargs)

resolve_product_variants(requestor, ids, channel, kwargs, qs) ==
    LET has_required_permissions ==
            has_one_of_permissions(requestor, ALL_PRODUCTS_PERMISSIONS)
        ch == ChannelStep(channel, has_required_permissions)
        ret == [qs |-> qs, channel_slug |-> ch.channel]
        domain == Call("resolve_product_variants",
                       [ids |-> ids, channel_slug |-> ch.channel,
                        requestor_has_access_to_all |-> has_required_permissions,
                        requestor |-> requestor],
                       ret)
    IN IF ch.raised
       THEN Raise("NoDefaultChannel", ch.calls)
       ELSE FilterAndSlice(Append(ch.calls, domain), qs,
                           [kwargs EXCEPT !.channel = ret.channel_slug])

resolve_report_product_sales(period, channel, kwargs, qs) ==
    LET ret == [qs |-> qs, channel_slug |-> channel]
    IN SliceOnly(<<Call("resolve_report_product_sales",
                        [period |-> period, channel_slug |-> channel], ret)>>,
                 qs, [kwargs EXCEPT !.channel = ret.channel_slug])

-----------------------------------------------------------------------------
(* Inputs *)

\* the default channel slug the channel service is configured with, if any
DefaultChannels == {None, "default-channel"}

\* the channel argument: not given, empty, or a slug
Channels == {None, "", "channel-pln"}

\* requestors, by the permissions they hold
Requestors == {{}, {"MANAGE_USERS"}, {"MANAGE_ORDERS"}, {"MANAGE_PRODUCTS"}}

\* a str argument (slug, sku, external_reference): not given, empty, a value
Strs(value) == {None, "", value}

\* the type of the global ids of the model that are not of type t
OtherType(t) == IF t = "Product" THEN "ProductVariant" ELSE "Product"

\* an id argument of a lookup of entity type t
Ids(t) == {None, "", GlobalId(t), GlobalId(OtherType(t))}

\* what a domain lookup finds
Found == {None, "entity"}

SearchTexts == {<<>>, <<" ">>, <<"c">>, <<" ", "c">>}

Str(chars) == [tag |-> "str", chars |-> chars]

FilterInput(search) == [tag |-> "input", search |-> search]

\* the filter argument of products.  An argument given as null is left out
\* of kwargs, so filter and sort_by are absent or input objects; a field of
\* an input object given as null is in it with the value None.
ProductFilters ==
    {Absent} \cup
    {FilterInput(x) : x \in {Absent, Null} \cup {Str(c) : c \in SearchTexts}}

\* the sort_by argument of products
ProductSorts ==
    {Absent} \cup {SortBy(d, f) : d \in {ASC, DESC}, f \in {<<>>, RANK, NAME}}

\* the filter and sort_by arguments of the other filterable lists
Filters == {Absent, FilterInput(Str(<<"c">>))}

Sorts == {Absent, SortBy(ASC, NAME), SortBy(DESC, NAME)}

\* the filter and sort_by arguments of paged product lists
PageFilters == {Absent, FilterInput(Str(<<"c">>))}

PageSorts ==
    {Absent, SortBy(ASC, <<>>), SortBy(DESC, RANK), SortBy(ASC, NAME), SortBy(DESC, NAME)}

\* the cursors a client can hold for a queryset: a row's key under one of
\* the orderings
Cursors(qs) ==
    {KeyOf(qs[i], f) : i \in 1 .. Len(qs), f \in {<<"id">>, RANK, NAME}}

\* the kwargs of a list request that asks for the first page
FirstPages(filters, sorts) ==
    {Kwargs(f, s, n, <<>>) : f \in filters, s \in sorts, n \in {MaxFirst}}

\* the kwargs of a list request that asks for any page of qs
AnyPages(filters, sorts, qs) ==
    {Kwargs(f, s, n, a) : f \in filters, s \in sorts, n \in 1 .. MaxFirst,
                          a \in {<<>>} \cup Cursors(qs)}

-----------------------------------------------------------------------------
(* The state machine: one request at a time, served in one step *)

NoRequest == [query |-> "none"]

NoResponse == [error |-> None, data |-> [kind |-> "none"]]

Init ==
    /\ defaultChannel \in DefaultChannels
    /\ request = NoRequest
    /\ calls = <<>>
    /\ response = NoResponse

\* the resolver of the request `req` runs and gives `r`
Serve(req, r) ==
    /\ request' = req
    /\ calls' = r.calls
    /\ response' = r.response
    /\ UNCHANGED defaultChannel

\* the response is sent; nothing of the request is kept
Finish ==
    /\ request.query # "none"
    /\ request' = NoRequest
    /\ calls' = <<>>
    /\ response' = NoResponse
    /\ UNCHANGED defaultChannel

ResolveCategory ==
    /\ request.query = "none"
    /\ \E id \in Ids("Category"), slug \in Strs("chairs"), found \in Found :
          Serve([query |-> "category", id |-> id, slug |-> slug],
                resolve_category(id, slug, found))

ResolveCollection ==
    /\ request.query = "none"
    /\ \E requestor \in Requestors, id \in Ids("Collection"), slug \in Strs("summer"),
          channel \in Channels, found \in Found :
          Serve([query |-> "collection", requestor |-> requestor, id |-> id,
                 slug |-> slug, channel |-> channel],
                resolve_collection(requestor, id, slug, channel, found))

\* the field lets in only requestors with MANAGE_PRODUCTS; id is required
ResolveDigitalContent ==
    /\ request.query = "none"
    /\ \E requestor \in Requestors, id \in Ids("DigitalContent") \ {None},
          found \in Found :
          /\ "MANAGE_PRODUCTS" \in requestor
          /\ Serve([query |-> "digital_content", requestor |-> requestor, id |-> id],
                   resolve_digital_content(id, found))

ResolveProduct ==
    /\ request.query = "none"
    /\ \E requestor \in Requestors, id \in Ids("Product"), slug \in Strs("chair-01"),
          external_reference \in Strs("ext-1"), channel \in Channels, found \in Found :
          Serve([query |-> "product", requestor |-> requestor, id |-> id,
                 slug |-> slug, external_reference |-> external_reference,
                 channel |-> channel],
                resolve_product(requestor, id, slug, external_reference, channel, found))

\* id is required
ResolveProductType ==
    /\ request.query = "none"
    /\ \E id \in Ids("ProductType") \ {None}, found \in Found :
          Serve([query |-> "product_type", id |-> id],
                resolve_product_type(id, found))

ResolveProductVariant ==
    /\ request.query = "none"
    /\ \E requestor \in Requestors, id \in Ids("ProductVariant"), sku \in Strs("sku-1"),
          external_reference \in Strs("ext-1"), channel \in Channels, found \in Found :
          Serve([query |-> "product_variant", requestor |-> requestor, id |-> id,
                 sku |-> sku, external_reference |-> external_reference,
                 channel |-> channel],
                resolve_product_variant(requestor, id, sku, external_reference,
                                        channel, found))

Levels == {None, "0"}

IdLists == {None, "[ProductVariant:1]"}

Periods == {"TODAY", "THIS_MONTH"}

ListQueries ==
    {"categories", "collections", "digital_contents", "products", "product_types",
     "product_variants", "report_product_sales"}

\* the resolver of a list request, on the queryset qs
RunList(req, qs) ==
    CASE req.query = "categories" -> resolve_categories(req.level, req.kwargs, qs)
      [] req.query = "collections" ->
             resolve_collections(req.requestor, req.channel, req.kwargs, qs)
      [] req.query = "digital_contents" -> resolve_digital_contents(req.kwargs, qs)
      [] req.query = "products" ->
             resolve_products(req.requestor, req.channel, req.kwargs, qs)
      [] req.query = "product_types" -> resolve_product_types(req.kwargs, qs)
      [] req.query = "product_variants" ->
             resolve_product_variants(req.requestor, req.ids, req.channel, req.kwargs, qs)
      [] req.query = "report_product_sales" ->
             resolve_report_product_sales(req.period, req.channel, req.kwargs, qs)

ServeList(req, qs) == Serve(req, RunList(req, qs))

ResolveCategories ==
    /\ request.query = "none"
    /\ \E level \in Levels, qs \in QuerySets(MaxItems),
          kwargs \in FirstPages(Filters, Sorts) :
          ServeList([query |-> "categories", level |-> level, kwargs |-> kwargs], qs)

ResolveCollections ==
    /\ request.query = "none"
    /\ \E requestor \in Requestors, channel \in Channels, qs \in QuerySets(MaxItems),
          kwargs \in FirstPages(Filters, Sorts) :
          ServeList([query |-> "collections", requestor |-> requestor,
                     channel |-> channel, kwargs |-> kwargs], qs)

\* the field lets in only requestors with MANAGE_PRODUCTS
ResolveDigitalContents ==
    /\ request.query = "none"
    /\ \E requestor \in Requestors, qs \in QuerySets(MaxItems),
          kwargs \in FirstPages({Absent}, {Absent}) :
          /\ "MANAGE_PRODUCTS" \in requestor
          /\ ServeList([query |-> "digital_contents", requestor |-> requestor,
                        kwargs |-> kwargs], qs)

ResolveProducts ==
    /\ request.query = "none"
    /\ \E requestor \in Requestors, channel \in Channels, qs \in QuerySets(MaxItems),
          kwargs \in FirstPages(ProductFilters, ProductSorts) :
          ServeList([query |-> "products", requestor |-> requestor,
                     channel |-> channel, kwargs |-> kwargs], qs)

ResolveProductTypes ==
    /\ request.query = "none"
    /\ \E qs \in QuerySets(MaxItems), kwargs \in FirstPages(Filters, Sorts) :
          ServeList([query |-> "product_types", kwargs |-> kwargs], qs)

ResolveProductVariants ==
    /\ request.query = "none"
    /\ \E requestor \in Requestors, ids \in IdLists, channel \in Channels,
          qs \in QuerySets(MaxItems), kwargs \in FirstPages(Filters, Sorts) :
          ServeList([query |-> "product_variants", requestor |-> requestor,
                     ids |-> ids, channel |-> channel, kwargs |-> kwargs], qs)

\* the field lets in only requestors with MANAGE_PRODUCTS; channel is required
ResolveReportProductSales ==
    /\ request.query = "none"
    /\ \E requestor \in Requestors, period \in Periods, channel \in Channels \ {None},
          qs \in QuerySets(MaxItems), kwargs \in FirstPages({Absent}, {Absent}) :
          /\ "MANAGE_PRODUCTS" \in requestor
          /\ ServeList([query |-> "report_product_sales", requestor |-> requestor,
                        period |-> period, channel |-> channel, kwargs |-> kwargs], qs)

\* the queryset the domain resolver returned in the request just served
ServedQs ==
    LET i == CHOOSE j \in 1 .. Len(calls) : calls[j].fn = "resolve_" \o request.query
    IN calls[i].ret.qs

\* the client asks again for the list it just got, over the same queryset:
\* the same page, or the page after the last cursor it was given
FollowUp ==
    /\ request.query \in ListQueries
    /\ response.error = None
    /\ \E after \in {request.kwargs.after, response.data.end_cursor},
          first \in 1 .. MaxFirst :
          /\ after # <<>>
          /\ ServeList([request EXCEPT !.kwargs.after = after, !.kwargs.first = first],
                       ServedQs)

Next ==
    \/ ResolveCategory
    \/ ResolveCollection
    \/ ResolveDigitalContent
    \/ ResolveProduct
    \/ ResolveProductType
    \/ ResolveProductVariant
    \/ ResolveCategories
    \/ ResolveCollections
    \/ ResolveDigitalContents
    \/ ResolveProducts
    \/ ResolveProductTypes
    \/ ResolveProductVariants
    \/ ResolveReportProductSales
    \/ FollowUp
    \/ Finish

Spec == Init /\ [][Next]_vars

-----------------------------------------------------------------------------
(* Paging: list requests for any page of larger querysets *)

PageProducts ==
    /\ request.query = "none"
    /\ \E requestor \in {{}}, qs \in QuerySets(MaxPagedItems) :
          \E kwargs \in AnyPages(PageFilters, PageSorts, qs) :
              ServeList([query |-> "products", requestor |-> requestor,
                         channel |-> "channel-pln", kwargs |-> kwargs], qs)

PageCategories ==
    /\ request.query = "none"
    /\ \E qs \in QuerySets(MaxPagedItems) :
          \E kwargs \in AnyPages(Filters, Sorts, qs) :
              ServeList([query |-> "categories", level |-> None, kwargs |-> kwargs], qs)

NextPage ==
    \/ PageProducts
    \/ PageCategories
    \/ FollowUp
    \/ Finish

InitPage ==
    /\ defaultChannel = "default-channel"
    /\ request = NoRequest
    /\ calls = <<>>
    /\ response = NoResponse

SpecPage == InitPage /\ [][NextPage]_vars

-----------------------------------------------------------------------------
(* Vocabulary of the properties *)

\* the queries that take a channel and scope their result to it
ChannelScoped ==
    {"collection", "collections", "product", "products", "product_variant",
     "product_variants"}

\* the domain resolvers these queries call, all with a channel_slug argument
ChannelDomainFns ==
    {"resolve_collection_by_id", "resolve_collection_by_slug", "resolve_collections",
     "resolve_product", "resolve_products", "resolve_variant",
     "resolve_product_variants"}

\* the request served is a channel-scoped query
ChannelQuery == request.query \in ChannelScoped

\* the requestor of the request holds a full-catalog permission
Privileged == \E p \in request.requestor : p \in ALL_PRODUCTS_PERMISSIONS

\* the calls of the request to the functions fns
CallsTo(fns) == {i \in 1 .. Len(calls) : calls[i].fn \in fns}

Provider == {"get_default_channel_slug_or_graphql_error"}

\* the lookups that take one of several identifying arguments
OneOfLookups == {"category", "collection", "product", "product_variant"}

\* the identifying arguments of the lookup served
IdentifyingArgs ==
    CASE request.query \in {"category", "collection"} -> <<request.id, request.slug>>
      [] request.query = "product" ->
             <<request.id, request.slug, request.external_reference>>
      [] request.query = "product_variant" ->
             <<request.id, request.sku, request.external_reference>>

\* how many of them the client supplied
Supplied == Cardinality({i \in DOMAIN IdentifyingArgs : IdentifyingArgs[i] # None})

\* the lookups that can be made by id, and the entity type each expects
ByIdLookups ==
    {"category", "collection", "product", "product_variant", "digital_content",
     "product_type"}

ExpectedType ==
    CASE request.query = "category" -> "Category"
      [] request.query = "collection" -> "Collection"
      [] request.query = "product" -> "Product"
      [] request.query = "product_variant" -> "ProductVariant"
      [] request.query = "digital_content" -> "DigitalContent"
      [] request.query = "product_type" -> "ProductType"

\* the lookup is by id, and the id is not a global id of the expected type
WrongId == Truthy(request.id) /\ request.id # GlobalId(ExpectedType)

\* no channel given, no privilege, no default channel configured
NoDefaultCase ==
    /\ ChannelQuery
    /\ request.channel = None
    /\ ~Privileged
    /\ defaultChannel = None

\* products: the sort field asked for is the relevance rank
RankRequested ==
    /\ request.kwargs.sort_by.tag = "input"
    /\ request.kwargs.sort_by.field = <<"search_rank", "id">>

\* products: no sort field is asked for
NoExplicitSort ==
    request.kwargs.sort_by.tag = "input" => request.kwargs.sort_by.field = <<>>

\* products: the filter holds a search text that is not blank
HasSearchPredicate ==
    /\ request.kwargs.filter.tag = "input"
    /\ request.kwargs.filter.search.tag = "str"
    /\ \E i \in DOMAIN request.kwargs.filter.search.chars :
          request.kwargs.filter.search.chars[i] # " "

\* products: an argument that is None where the resolver reads a dict or a str
NullArgument ==
    \/ request.kwargs.sort_by.tag = "null"
    \/ request.kwargs.filter.tag = "null"
    \/ (request.kwargs.filter.tag = "input" /\ request.kwargs.filter.search.tag = "null")

\* the request passes the argument validation of its resolver
PassesValidation ==
    CASE request.query \in OneOfLookups -> Supplied = 1
      [] request.query = "products" ->
             ~NullArgument /\ ~(RankRequested /\ ~HasSearchPredicate)
      [] OTHER -> TRUE

\* the domain resolvers, the filter engine and the pagination engine
LookupFns ==
    {"resolve_category_by_id", "resolve_category_by_slug", "resolve_collection_by_id",
     "resolve_collection_by_slug", "resolve_digital_content_by_id", "resolve_product",
     "resolve_product_type_by_id", "resolve_variant"}

ListFns == {"resolve_" \o q : q \in ListQueries}

EngineFns == {"filter_connection_queryset", "create_connection_slice"}

DelegatedFns == LookupFns \cup ListFns \cup EngineFns

-----------------------------------------------------------------------------
(* Properties *)

\* C1: a channel-scoped query with no channel argument hands its domain
\* resolver the configured default channel slug when the requestor holds no
\* full-catalog permission, and no channel (None) when it holds one.
C1_DefaultChannelScoping ==
    (ChannelQuery /\ request.channel = None) =>
        \A i \in CallsTo(ChannelDomainFns) :
            IF Privileged
            THEN calls[i].args.channel_slug = None
            ELSE /\ defaultChannel # None
                 /\ calls[i].args.channel_slug = defaultChannel

\* C1 happens: an unprivileged request with no channel reached its domain
\* resolver with the default channel
C1_Witness ==
    /\ ChannelQuery
    /\ request.channel = None
    /\ ~Privileged
    /\ \E i \in CallsTo(ChannelDomainFns) :
          calls[i].args.channel_slug = "default-channel"

\* C2: a channel argument that is given is the channel of the request as it
\* is: the domain resolver gets it, the ChannelContext returned carries it,
\* the engines get it, and the default-channel provider is not asked.
C2_ExplicitChannelUnchanged ==
    (ChannelQuery /\ request.channel # None) =>
        /\ \A i \in CallsTo(ChannelDomainFns) :
              calls[i].args.channel_slug = request.channel
        /\ \A i \in CallsTo({"filter_connection_queryset", "create_connection_slice"}) :
              calls[i].args.kwargs.channel = request.channel
        /\ CallsTo(Provider) = {}
        /\ response.error # "NoDefaultChannel"
        /\ response.data.kind = "context" => response.data.channel_slug = request.channel

\* C2 happens: an unprivileged request with the empty channel "" and no
\* default channel configured got a ChannelContext for ""
C2_Witness ==
    /\ ChannelQuery
    /\ request.channel = ""
    /\ ~Privileged
    /\ defaultChannel = None
    /\ response.data.kind = "context"
    /\ response.data.channel_slug = ""

\* C3 as stated: a lookup by one of several identifying arguments fails with
\* InvalidArguments when none or more than one is supplied, and succeeds or
\* returns null when exactly one is.
C3_ExactlyOneSucceeds ==
    request.query \in OneOfLookups =>
        IF Supplied = 1
        THEN response.error = None
        ELSE response.error = "InvalidArguments"

\* C3, amended: none or more than one identifying argument fails with
\* InvalidArguments before any call is made; exactly one passes the check,
\* and the lookup then returns the entity or null unless it fails with
\* NoDefaultChannel (no channel, no privilege, no default configured) or
\* with InvalidGlobalId (an id that is not of the expected type).
C3_ExactlyOnePassesValidation ==
    request.query \in OneOfLookups =>
        IF Supplied = 1
        THEN /\ response.error \in {None, "NoDefaultChannel", "InvalidGlobalId"}
             /\ response.error = None <=> (~NoDefaultCase /\ ~WrongId)
        ELSE response.error = "InvalidArguments" /\ calls = <<>>

\* C3 happens: a product lookup with two identifying arguments was refused
C3_Witness ==
    /\ request.query = "product"
    /\ Supplied = 2
    /\ response.error = "InvalidArguments"

\* C4: products sorted by relevance rank without a search predicate fails
\* with the validation error, and no call is delegated.
C4_RankSortNeedsSearch ==
    (request.query = "products" /\ RankRequested /\ ~HasSearchPredicate) =>
        response.error = "InvalidSortWithoutSearch" /\ calls = <<>>

\* the rows of the connection returned
Nodes == [i \in DOMAIN response.data.edges |-> response.data.edges[i].node]

C6_LookupResult ==
    /\ request.query \in {"collection", "product", "product_variant"} =>
          \A i \in CallsTo(LookupFns) :
              /\ calls[i].ret = "entity" =>
                    response = [error |-> None,
                                data |-> [kind |-> "context", node |-> "entity",
                                          channel_slug |-> calls[i].args.channel_slug]]
              /\ calls[i].ret = None => response = [error |-> None, data |-> NullData]
    /\ request.query \in {"category", "digital_content", "product_type"} =>
          \A i \in CallsTo(LookupFns) :
              response = [error |-> None,
                          data |-> IF calls[i].ret = None
                                   THEN NullData
                                   ELSE [kind |-> "entity", node |-> calls[i].ret]]

\* C6 happens: a variant looked up by sku with no channel was found, and
\* came back in a ChannelContext for the default channel
C6_Witness ==
    /\ request.query = "product_variant"
    /\ request.sku = "sku-1"
    /\ request.channel = None
    /\ \E i \in CallsTo({"resolve_variant"}) : calls[i].ret = "entity"
    /\ response.data = [kind |-> "context", node |-> "entity",
                        channel_slug |-> "default-channel"]

\* C7: a channel-scoped query that passes its argument validation fails with
\* NoDefaultChannel exactly when it has no channel argument, its requestor
\* holds no full-catalog permission and no default channel is configured;
\* with a channel argument or a privileged requestor the provider of the
\* default channel is not asked.
C7_NoDefaultChannel ==
    ChannelQuery =>
        /\ PassesValidation => (response.error = "NoDefaultChannel" <=> NoDefaultCase)
        /\ ~PassesValidation => response.error # "NoDefaultChannel"
        /\ (request.channel # None \/ Privileged) => CallsTo(Provider) = {}

\* C7 happens: a product search sorted by rank, with no channel, by a
\* requestor with an unrelated permission, found no default channel
C7_Witness ==
    /\ request.query = "products"
    /\ RankRequested
    /\ HasSearchPredicate
    /\ request.requestor = {"MANAGE_USERS"}
    /\ response.error = "NoDefaultChannel"

\* the ordered collection the pagination engine pages through: what the
\* filter engine returned for the request
Ordered == calls[Len(calls) - 1].ret

\* a list request that was served a connection by both engines
Paged ==
    /\ request.query \in {"categories", "products"}
    /\ response.error = None

\* the position in the ordered collection of the last row of the page
LastPosition ==
    CHOOSE p \in 1 .. Len(Ordered) : Ordered[p] = Nodes[Len(Nodes)]

\* the rows lo + 1 .. lo + k of the ordered collection, as far as it goes
Expected(lo, k) ==
    [i \in 1 .. ((IF lo + k < Len(Ordered) THEN k ELSE Len(Ordered) - lo)) |->
        Ordered[lo + i]]

\* a request with first = k and no cursor returns the first min(k, n) rows,
\* and tells of a next page exactly when n > k
C8_FirstPage ==
    (Paged /\ request.kwargs.after = <<>>) =>
        /\ Nodes = Expected(0, request.kwargs.first)
        /\ response.data.has_next_page <=> Len(Ordered) > request.kwargs.first

\* the step is the same list request again, over the same collection, with
\* the cursor `after`
SameListAgain(after) ==
    /\ Paged
    /\ Paged'
    /\ request' = [request EXCEPT !.kwargs.after = after,
                                  !.kwargs.first = request'.kwargs.first]
    /\ Ordered' = Ordered

\* C8: forward pagination over a fixed ordered collection of n rows: first = k
\* with no cursor returns the first min(k, n) rows with has_next_page iff
\* n > k; the last cursor of a page passed as `after` returns the rows that
\* follow the page, in order, with has_next_page iff rows remain after them;
\* the same cursor again returns the same rows.
C8_ForwardPagination ==
    [][/\ C8_FirstPage'
       /\ (response.data.kind = "connection" /\ Nodes # <<>>
           /\ SameListAgain(response.data.end_cursor)) =>
              /\ Nodes' = Expected(LastPosition, request'.kwargs.first)
              /\ response'.data.has_next_page <=>
                     Len(Ordered) > LastPosition + request'.kwargs.first
       /\ (response.data.kind = "connection"
           /\ SameListAgain(request.kwargs.after)) =>
              \A i \in 1 .. Len(Nodes) :
                  i <= Len(Nodes') => Nodes'[i] = Nodes[i]
      ]_vars

\* C8 happens: the first 2 of 3 products were returned with a next page, and
\* the request repeated with the last cursor returned the remaining row and
\* no next page
C8_Witness ==
    /\ Paged
    /\ request.query = "products"
    /\ request.kwargs.first = 2
    /\ Len(Ordered) = 3
    /\ request.kwargs.after = KeyOf(Ordered[2], OrderingOf(request.kwargs.sort_by).field)
    /\ Nodes = <<Ordered[3]>>
    /\ ~response.data.has_next_page

ValidationErrors ==
    {"InvalidArguments", "InvalidSortWithoutSearch", "NoDefaultChannel", "InvalidGlobalId"}

RaisedByLookup ==
    /\ CallsTo(DelegatedFns) = {Len(calls)}
    /\ calls[Len(calls)].fn \in {"resolve_product", "resolve_variant"}
    /\ calls[Len(calls)].ret = "raise InvalidGlobalId"

Filterable ==
    {"categories", "collections", "products", "product_types", "product_variants"}

FilterEngine == {"filter_connection_queryset"}

\* products: the filter holds a search text that is empty or all blanks
BlankSearch ==
    /\ request.kwargs.filter.tag = "input"
    /\ request.kwargs.filter.search.tag = "str"
    /\ \A i \in DOMAIN request.kwargs.filter.search.chars :
          request.kwargs.filter.search.chars[i] = " "

\* products: a sort field is asked for
ExplicitSort ==
    /\ request.kwargs.sort_by.tag = "input"
    /\ request.kwargs.sort_by.field # <<>>

\* C11 as stated: in every filterable list query the filter and sort_by the
\* filter engine receives are those of the request.
C11_PassedThroughUnmodified ==
    request.query \in Filterable =>
        \A i \in CallsTo(FilterEngine) :
            /\ calls[i].args.kwargs.filter = request.kwargs.filter
            /\ calls[i].args.kwargs.sort_by = request.kwargs.sort_by

\* C11, amended: in every filterable list query the filter engine receives
\* the filter of the request as it is, and the sort_by of the request as it
\* is, except in products with a search predicate and no sort field, where
\* it receives the default sort [direction "-", field (search_rank, id)]
\* in place of the sort_by of the request.
C11_PassedThroughButDefaultSort ==
    request.query \in Filterable =>
        \A i \in CallsTo(FilterEngine) :
            /\ calls[i].args.kwargs.filter = request.kwargs.filter
            /\ calls[i].args.kwargs.sort_by =
                   IF request.query = "products" /\ HasSearchPredicate /\ NoExplicitSort
                   THEN [tag |-> "input", direction |-> "-",
                         field |-> <<"search_rank", "id">>]
                   ELSE request.kwargs.sort_by

\* C11 happens: a product search sent with an ascending sort input that
\* names no field reached the filter engine with its filter as sent and the
\* default sort in place of its sort_by
C11_Witness ==
    /\ request.query = "products"
    /\ HasSearchPredicate
    /\ request.kwargs.sort_by = [tag |-> "input", direction |-> "", field |-> <<>>]
    /\ \E i \in CallsTo(FilterEngine) :
          /\ calls[i].args.kwargs.filter = request.kwargs.filter
          /\ calls[i].args.kwargs.sort_by.direction = "-"

\* C12: products treats a search text that is empty or all blanks as no
\* search: with sort by rank the request fails with the validation error and
\* nothing is delegated, and with no sort_by none is put in (the engines get
\* sort_by absent); a sort field asked for together with a search that is
\* not blank reaches the engines as sent.
C12_BlankSearchIsNoSearch ==
    request.query = "products" =>
        /\ (BlankSearch /\ RankRequested) =>
               response.error = "InvalidSortWithoutSearch" /\ calls = <<>>
        /\ (BlankSearch /\ request.kwargs.sort_by = Absent) =>
               /\ response.error \in {None, "NoDefaultChannel", "InvalidCursor"}
               /\ \A i \in CallsTo(EngineFns) : calls[i].args.kwargs.sort_by = Absent
        /\ (HasSearchPredicate /\ ExplicitSort) =>
               /\ response.error \in {None, "NoDefaultChannel", "InvalidCursor"}
               /\ \A i \in CallsTo(EngineFns) :
                      calls[i].args.kwargs.sort_by = request.kwargs.sort_by

\* C12 happens: a product list with the search " " and no sort_by was served,
\* and the filter engine got no sort_by
C12_Witness ==
    /\ request.query = "products"
    /\ request.kwargs.filter = [tag |-> "input",
                                search |-> [tag |-> "str", chars |-> <<" ">>]]
    /\ request.kwargs.sort_by = Absent
    /\ response.error = None
    /\ \E i \in CallsTo(FilterEngine) : calls[i].args.kwargs.sort_by = Absent

====
